---- MODULE Spec2Model ----
(***************************************************************************)
(* Model of the command processor of src/src/lib.rs: a fixed-capacity      *)
(* vector of command items with add_command, remove_command and            *)
(* process_command (with the built-in "help" listing).                     *)
(***************************************************************************)
EXTENDS Integers, Sequences, FiniteSets, TLC

(* ---------------------------- bounds ---------------------------------- *)

\* Largest NUM_COMMANDS a processor is instantiated with.
MaxCapacity == 3

\* Largest capacity of a bounded writer handed to process_command.
MaxWriterCap == 2

(* ---------------------------- inputs ---------------------------------- *)

\* Option<T>: None is the empty sequence, Some(v) a one-element sequence.
None == << >>

Some(v) == << v >>

\* Command names (String<32>), the reserved word included.
Names == {"help", "test", "test2"}

\* Help arguments (Option<String<HELP_STR_SIZE>>).
Helps == {None, Some("a"), Some("bb")}

\* Result<T, CommandProcessorError>.
Ok(v) == [ok |-> TRUE, val |-> v]

Err(e) == [ok |-> FALSE, val |-> e]

\* Writers (dyn Write): a text buffer, unbounded like std::string::String or
\* bounded like heapless::String<cap>; it may already hold text.
Writers ==
    [bounded : {FALSE}, cap : {0}, buf : {"", ">"}]
        \cup [bounded : {TRUE}, cap : 0..MaxWriterCap, buf : {""}]

\* fmt::Write::write_str on such a buffer: all of s or nothing.
write_str(w, s) ==
    IF w.bounded /\ Len(w.buf) + Len(s) > w.cap
    THEN [ok |-> FALSE, writer |-> w]
    ELSE [ok |-> TRUE, writer |-> [w EXCEPT !.buf = w.buf \o s]]

\* Callbacks (fn pointers of type CommandCallback) a caller registers.
Callbacks == {"printer_demo", "writer_demo"}

\* What a callback does with Option<&mut dyn Write>: its return value and
\* the writer afterwards.  printer_demo ignores the writer; writer_demo
\* needs one, writes "w" to it and reports Failure when the write fails.
printer_demo(writer) == [result |-> Ok("Success"), writer |-> writer]

writer_demo(writer) ==
    IF writer = None
    THEN [result |-> Err("NoWriter"), writer |-> writer]
    ELSE LET r == write_str(writer[1], "w")
         IN  [result |-> IF r.ok THEN Ok("Success") ELSE Ok("Failure"),
              writer |-> Some(r.writer)]

call_callback(callback, writer) ==
    IF callback = "printer_demo" THEN printer_demo(writer) ELSE writer_demo(writer)

(* ------------------------- the processor ------------------------------- *)

CommandItem(command, callback, help) ==
    [command |-> command, callback |-> callback, help |-> help]

\* push that admits one item too many.
push_off_by_one(v, cap, item) ==
    IF Len(v) <= cap
    THEN [ok |-> TRUE, vec |-> Append(v, item)]
    ELSE [ok |-> FALSE, vec |-> v]

\* push that puts the item in front.
push_front(v, cap, item) ==
    IF Len(v) < cap
    THEN [ok |-> TRUE, vec |-> << item >> \o v]
    ELSE [ok |-> FALSE, vec |-> v]

\* heapless::Vec::push: Err(item) when the vector is full.
push(v, cap, item) ==
    IF Len(v) < cap
    THEN [ok |-> TRUE, vec |-> Append(v, item)]
    ELSE [ok |-> FALSE, vec |-> v]

\* Removal that shifts the later items down (Vec::remove), keeping the order.
swap_remove_shift(v, i) == SubSeq(v, 1, i - 1) \o SubSeq(v, i + 1, Len(v))

\* Removal that fills the hole with the first item and drops the head.
swap_remove_front(v, i) == Tail([v EXCEPT ![i] = v[1]])

\* Removal that fills the hole with the last item and forgets to shrink.
swap_remove_no_pop(v, i) == [v EXCEPT ![i] = v[Len(v)]]

\* heapless::Vec::swap_remove(i), i counted from 1 here.
swap_remove(v, i) ==
    IF i = Len(v)
    THEN SubSeq(v, 1, Len(v) - 1)
    ELSE [SubSeq(v, 1, Len(v) - 1) EXCEPT ![i] = v[Len(v)]]

\* Indices of the items named command.
matches(cmds, command) == {i \in 1..Len(cmds) : cmds[i].command = command}

\* The first index the scan stops at.
first_match(cmds, command) ==
    CHOOSE i \in matches(cmds, command) : \A j \in matches(cmds, command) : i <= j

\* iter().find(|cmd| cmd.command == *command)
find(cmds, command) ==
    IF matches(cmds, command) = {}
    THEN None
    ELSE Some(cmds[first_match(cmds, command)])

new == << >>

\* add_command without the scan for an existing name.
add_command_no_scan(cmds, cap, command, callback, help) ==
    LET r == push(cmds, cap, CommandItem(command, callback, help))
    IN  [commands |-> r.vec,
         result |-> IF r.ok THEN Ok("Unit") ELSE Err("CommandListFull")]

\* add_command that overwrites the item of an existing name.
add_command_overwrite(cmds, cap, command, callback, help) ==
    IF matches(cmds, command) # {}
    THEN [commands |-> [cmds EXCEPT ![first_match(cmds, command)] =
                            CommandItem(command, callback, help)],
          result |-> Err("CommandAlreadyExists")]
    ELSE LET r == push(cmds, cap, CommandItem(command, callback, help))
         IN  [commands |-> r.vec,
              result |-> IF r.ok THEN Ok("Unit") ELSE Err("CommandListFull")]

\* add_command that tests the capacity before it scans for the name.
add_command_capacity_first(cmds, cap, command, callback, help) ==
    IF Len(cmds) >= cap
    THEN [commands |-> cmds, result |-> Err("CommandListFull")]
    ELSE IF matches(cmds, command) # {}
         THEN [commands |-> cmds, result |-> Err("CommandAlreadyExists")]
         ELSE [commands |-> Append(cmds, CommandItem(command, callback, help)),
               result |-> Ok("Unit")]

add_command(cmds, cap, command, callback, help) ==
    IF matches(cmds, command) # {}
    THEN [commands |-> cmds, result |-> Err("CommandAlreadyExists")]
    ELSE LET r == push(cmds, cap, CommandItem(command, callback, help))
         IN  [commands |-> r.vec,
              result |-> IF r.ok THEN Ok("Unit") ELSE Err("CommandListFull")]

\* remove_command that drops the last item when the name is not found.
remove_command_pop(cmds, command) ==
    IF matches(cmds, command) # {}
    THEN [commands |-> swap_remove(cmds, first_match(cmds, command)),
          result |-> Ok("Unit")]
    ELSE [commands |-> IF cmds = << >> THEN cmds ELSE SubSeq(cmds, 1, Len(cmds) - 1),
          result |-> Err("CommandNotFound")]

remove_command(cmds, command) ==
    IF matches(cmds, command) # {}
    THEN [commands |-> swap_remove(cmds, first_match(cmds, command)),
          result |-> Ok("Unit")]
    ELSE [commands |-> cmds, result |-> Err("CommandNotFound")]

\* writeln that leaves the line terminator out.
writeln_no_terminator(w, help) == write_str(w, help)

\* writeln!(writer, "{}", help): the text, then the line terminator; the
\* first failing write ends it.
writeln(w, help) ==
    LET r1 == write_str(w, help)
    IN  IF ~r1.ok THEN r1 ELSE write_str(r1.writer, "\n")

RECURSIVE help_loop(_, _, _)
help_loop(cmds, i, w) ==
    IF i > Len(cmds)
    THEN [result |-> Ok("Success"), writer |-> w]
    ELSE IF cmds[i].help = None
         THEN help_loop(cmds, i + 1, w)
         ELSE LET r == writeln(w, cmds[i].help[1])
              IN  IF r.ok
                  THEN help_loop(cmds, i + 1, r.writer)
                  ELSE [result |-> Err("WriteError"), writer |-> r.writer]

\* help_printer that goes on with the next item after a failed write.
RECURSIVE help_loop_continue(_, _, _, _)
help_loop_continue(cmds, i, w, failed) ==
    IF i > Len(cmds)
    THEN [result |-> IF failed THEN Err("WriteError") ELSE Ok("Success"),
          writer |-> w]
    ELSE IF cmds[i].help = None
         THEN help_loop_continue(cmds, i + 1, w, failed)
         ELSE LET r == writeln(w, cmds[i].help[1])
              IN  help_loop_continue(cmds, i + 1, r.writer, failed \/ ~r.ok)

help_printer_continue(cmds, w) == help_loop_continue(cmds, 1, w, FALSE)

help_printer(cmds, w) == help_loop(cmds, 1, w)

\* The lookup of process_command: an item is found or CommandNotFound.
\* Yields the result, the writer afterwards and the callbacks invoked, each
\* with the writer it was handed.
dispatch(cmds, command, writer) ==
    LET found == find(cmds, command)
    IN  IF found # None
        THEN LET r == call_callback(found[1].callback, writer)
             IN  [commands |-> cmds, result |-> r.result, writer |-> r.writer,
                  invoked |-> << [callback |-> found[1].callback,
                                  writer |-> writer] >>]
        ELSE [commands |-> cmds, result |-> Err("CommandNotFound"),
              writer |-> writer, invoked |-> << >>]

\* process_command that runs the item next to the one it was asked for when
\* the name is unknown.
process_command_any(cmds, command, writer) ==
    IF command = "help"
    THEN IF writer = None
         THEN [commands |-> cmds, result |-> Err("NoWriter"),
               writer |-> writer, invoked |-> << >>]
         ELSE LET r == help_printer(cmds, writer[1])
              IN  [commands |-> cmds, result |-> r.result,
                   writer |-> Some(r.writer), invoked |-> << >>]
    ELSE IF find(cmds, command) = None /\ cmds # << >>
         THEN dispatch(cmds, cmds[1].command, writer)
         ELSE dispatch(cmds, command, writer)

\* process_command that looks "help" up like any name when no writer is given.
process_command_help_lookup(cmds, command, writer) ==
    IF command = "help" /\ writer # None
    THEN LET r == help_printer(cmds, writer[1])
         IN  [commands |-> cmds, result |-> r.result,
              writer |-> Some(r.writer), invoked |-> << >>]
    ELSE dispatch(cmds, command, writer)

\* process_command that hands the callback no writer.
process_command_drops_writer(cmds, command, writer) ==
    IF command = "help"
    THEN IF writer = None
         THEN [commands |-> cmds, result |-> Err("NoWriter"),
               writer |-> writer, invoked |-> << >>]
         ELSE LET r == help_printer(cmds, writer[1])
              IN  [commands |-> cmds, result |-> r.result,
                   writer |-> Some(r.writer), invoked |-> << >>]
    ELSE LET r == dispatch(cmds, command, None)
         IN  [r EXCEPT !.writer = writer]

\* process_command that prefers a stored item named "help" to the listing.
process_command_shadow(cmds, command, writer) ==
    IF command = "help" /\ find(cmds, command) = None
    THEN IF writer = None
         THEN [commands |-> cmds, result |-> Err("NoWriter"),
               writer |-> writer, invoked |-> << >>]
         ELSE LET r == help_printer(cmds, writer[1])
              IN  [commands |-> cmds, result |-> r.result,
                   writer |-> Some(r.writer), invoked |-> << >>]
    ELSE dispatch(cmds, command, writer)

\* process_command that drops an item once its callback has run.
process_command_one_shot(cmds, command, writer) ==
    IF command = "help"
    THEN IF writer = None
         THEN [commands |-> cmds, result |-> Err("NoWriter"),
               writer |-> writer, invoked |-> << >>]
         ELSE LET r == help_printer(cmds, writer[1])
              IN  [commands |-> cmds, result |-> r.result,
                   writer |-> Some(r.writer), invoked |-> << >>]
    ELSE LET r == dispatch(cmds, command, writer)
         IN  IF find(cmds, command) = None
             THEN r
             ELSE [r EXCEPT !.commands = swap_remove(cmds, first_match(cmds, command))]

process_command(cmds, command, writer) ==
    IF command = "help"
    THEN IF writer = None
         THEN [commands |-> cmds, result |-> Err("NoWriter"),
               writer |-> writer, invoked |-> << >>]
         ELSE LET r == help_printer(cmds, writer[1])
              IN  [commands |-> cmds, result |-> r.result,
                   writer |-> Some(r.writer), invoked |-> << >>]
    ELSE dispatch(cmds, command, writer)

(* ----------------------------- state ---------------------------------- *)

VARIABLES
    NUM_COMMANDS,   \* the capacity this processor was instantiated with
    commands,       \* CommandProcessor.commands
    call,           \* the last call made on the processor and its arguments
    before,         \* commands when that call was made
    result,         \* what that call returned
    writer_after,   \* the caller's writer when that call returned
    invoked,        \* the callbacks that call invoked
    added,          \* names some add_command has stored so far
    distinct_adds,  \* names passed so far, while every call was an add of a fresh name
    previous        \* the call before the last one, when the last one undoes or follows it

vars == << NUM_COMMANDS, commands, call, before, result, writer_after,
           invoked, added, distinct_adds, previous >>

NoCall == [op |-> "new", command |-> "", callback |-> "", help |-> None,
           writer |-> None]

NoPrevious == [op |-> "none", command |-> "", before |-> << >>]

Init ==
    /\ NUM_COMMANDS \in 0..MaxCapacity
    /\ commands = new
    /\ call = NoCall
    /\ before = new
    /\ result = Ok("Unit")
    /\ writer_after = None
    /\ invoked = << >>
    /\ added = {}
    /\ distinct_adds = [only |-> TRUE, names |-> {}]
    /\ previous = NoPrevious

AddCommand ==
    \E command \in Names, callback \in Callbacks, help \in Helps :
        LET r == add_command(commands, NUM_COMMANDS, command, callback, help)
        IN  /\ commands' = r.commands
            /\ result' = r.result
            /\ call' = [op |-> "add", command |-> command, callback |-> callback,
                        help |-> help, writer |-> None]
            /\ before' = commands
            /\ writer_after' = None
            /\ invoked' = << >>
            /\ added' = IF r.result.ok THEN added \cup {command} ELSE added
            /\ distinct_adds' =
                   IF distinct_adds.only /\ command \notin distinct_adds.names
                   THEN [only |-> TRUE, names |-> distinct_adds.names \cup {command}]
                   ELSE [only |-> FALSE, names |-> {}]
            /\ previous' =
                   IF call.op = "remove" /\ result.ok
                   THEN [op |-> "remove", command |-> call.command, before |-> << >>]
                   ELSE NoPrevious
            /\ UNCHANGED NUM_COMMANDS

RemoveCommand ==
    \E command \in Names :
        LET r == remove_command(commands, command)
        IN  /\ commands' = r.commands
            /\ result' = r.result
            /\ call' = [op |-> "remove", command |-> command, callback |-> "",
                        help |-> None, writer |-> None]
            /\ before' = commands
            /\ writer_after' = None
            /\ invoked' = << >>
            /\ distinct_adds' = [only |-> FALSE, names |-> {}]
            /\ previous' =
                   IF call.op = "add" /\ result.ok
                   THEN [op |-> "add", command |-> call.command, before |-> before]
                   ELSE NoPrevious
            /\ UNCHANGED << NUM_COMMANDS, added >>

ProcessCommand ==
    \E command \in Names, writer \in {None} \cup {Some(w) : w \in Writers} :
        LET r == process_command(commands, command, writer)
        IN  /\ commands' = r.commands
            /\ result' = r.result
            /\ call' = [op |-> "process", command |-> command, callback |-> "",
                        help |-> None, writer |-> writer]
            /\ before' = commands
            /\ writer_after' = r.writer
            /\ invoked' = r.invoked
            /\ distinct_adds' = [only |-> FALSE, names |-> {}]
            /\ previous' = NoPrevious
            /\ UNCHANGED << NUM_COMMANDS, added >>

Next == AddCommand \/ RemoveCommand \/ ProcessCommand

Spec == Init /\ [][Next]_vars

(* --------------------------- properties -------------------------------- *)

\* name is the name of some item of cmds.
Present(cmds, name) == \E i \in DOMAIN cmds : cmds[i].command = name

\* The help listing of cmds: every help text followed by a line terminator,
\* in storage order.
RECURSIVE HelpText(_)
HelpText(cmds) ==
    IF cmds = << >>
    THEN ""
    ELSE (IF Head(cmds).help = None THEN "" ELSE Head(cmds).help[1] \o "\n")
             \o HelpText(Tail(cmds))

\* Every write of text to w succeeds: w is unbounded or has the room.
HasRoom(w, text) == ~w.bounded \/ Len(w.buf) + Len(text) <= w.cap

\* C1: the registry holds at most NUM_COMMANDS items and no two items have
\* the same name, whatever calls were made.
C1_BoundedAndUnique ==
    /\ Len(commands) <= NUM_COMMANDS
    /\ \A i, j \in DOMAIN commands :
           commands[i].command = commands[j].command => i = j

\* C1 witness: a full registry of two items, after an add that was refused.
C1_Witness ==
    /\ NUM_COMMANDS = 2
    /\ Len(commands) = 2
    /\ call.op = "add"
    /\ ~result.ok

\* C2: no stored item is named "help".
C2_NoHelpItem == \A i \in DOMAIN commands : commands[i].command # "help"

\* C3: while every call so far was an add of a fresh name, the k-th add
\* succeeds for k <= NUM_COMMANDS and the (NUM_COMMANDS+1)-th fails with
\* CommandListFull.
C3_FillThenFull ==
    distinct_adds.only /\ call.op = "add" =>
        LET k == Cardinality(distinct_adds.names)
        IN  /\ k <= NUM_COMMANDS => result = Ok("Unit") /\ Len(commands) = k
            /\ k = NUM_COMMANDS + 1 => result = Err("CommandListFull")

\* C3 witness: the add after NUM_COMMANDS >= 1 successful adds of fresh names.
C3_Witness ==
    /\ distinct_adds.only
    /\ NUM_COMMANDS >= 1
    /\ Cardinality(distinct_adds.names) = NUM_COMMANDS + 1
    /\ call.op = "add"
    /\ ~result.ok

\* C4: add of a name already present fails with CommandAlreadyExists and
\* leaves every item (name, callback, help) and the order as they were.
C4_DuplicateAdd ==
    call.op = "add" /\ Present(before, call.command) =>
        /\ result = Err("CommandAlreadyExists")
        /\ commands = before

\* C4 witness: a refused add whose callback and help differ from the stored ones.
C4_Witness ==
    /\ call.op = "add"
    /\ \E i \in DOMAIN before :
           /\ before[i].command = call.command
           /\ before[i].callback # call.callback
           /\ before[i].help # call.help
    /\ ~result.ok

\* C5: remove of a present name succeeds, and a process_command of that name
\* made right after it fails with CommandNotFound.
C5_RemoveThenDispatch ==
    [][ /\ (call'.op = "remove" /\ Present(before', call'.command)
               => result' = Ok("Unit"))
        /\ ((/\ call.op = "remove"
              /\ Present(before, call.command)
              /\ call'.op = "process"
              /\ call'.command = call.command)
               => result' = Err("CommandNotFound")) ]_vars

\* C6: remove of a name not present fails with CommandNotFound and leaves
\* the items and their order as they were.
C6_RemoveAbsent ==
    call.op = "remove" /\ ~Present(before, call.command) =>
        /\ result = Err("CommandNotFound")
        /\ commands = before

\* C6 witness: a refused remove on a registry that holds items.
C6_Witness ==
    /\ call.op = "remove"
    /\ ~Present(before, call.command)
    /\ before # << >>
    /\ ~result.ok

\* C7 as stated: process_command of a name never added fails with
\* CommandNotFound and invokes no callback, with or without a writer.
C7_NeverAdded ==
    call.op = "process" /\ call.command \notin added =>
        /\ result = Err("CommandNotFound")
        /\ invoked = << >>

\* C7 amended: process_command of a name other than "help" that was never
\* added fails with CommandNotFound and invokes no callback, with or without
\* a writer, and leaves the writer untouched.
C7_NeverAddedNotHelp ==
    call.op = "process" /\ call.command \notin added /\ call.command # "help" =>
        /\ result = Err("CommandNotFound")
        /\ invoked = << >>
        /\ writer_after = call.writer

\* C7 witness: a never-added name dispatched with a writer on a registry
\* that holds items.
C7_Witness ==
    /\ call.op = "process"
    /\ call.command \notin added
    /\ call.command # "help"
    /\ call.writer # None
    /\ before # << >>
    /\ ~result.ok

\* C8: process_command("help") without a writer fails with NoWriter, invokes
\* no callback and writes nothing, whatever the registry holds.
C8_HelpNoWriter ==
    call.op = "process" /\ call.command = "help" /\ call.writer = None =>
        /\ result = Err("NoWriter")
        /\ invoked = << >>
        /\ writer_after = None

\* C8 witness: "help" without a writer on a registry that holds an item
\* named "help".
C8_Witness ==
    /\ call.op = "process"
    /\ call.command = "help"
    /\ call.writer = None
    /\ Present(before, "help")
    /\ ~result.ok

\* C9: process_command("help") with a writer whose writes all succeed appends
\* exactly the help texts, each with one line terminator, in storage order,
\* nothing for items without help, and returns Success.
C9_HelpListing ==
    (/\ call.op = "process"
     /\ call.command = "help"
     /\ call.writer # None
     /\ HasRoom(call.writer[1], HelpText(before)))
    => /\ result = Ok("Success")
       /\ writer_after =
              Some([call.writer[1] EXCEPT
                        !.buf = call.writer[1].buf \o HelpText(before)])
       /\ invoked = << >>

\* C9 witness: a listing of two different help texts appended to a writer that
\* already held text.
C9_Witness ==
    /\ call.op = "process"
    /\ call.command = "help"
    /\ result = Ok("Success")
    /\ writer_after # None
    /\ writer_after[1].buf = ">bb\na\n"

\* C10: process_command of a registered name other than "help" invokes that
\* item's callback once and no other, hands it the caller's writer as given,
\* and returns what the callback returned.
C10_DispatchRegistered ==
    call.op = "process" /\ call.command # "help" /\ Present(before, call.command) =>
        \E i \in DOMAIN before :
            /\ before[i].command = call.command
            /\ invoked = << [callback |-> before[i].callback,
                             writer |-> call.writer] >>
            /\ result = call_callback(before[i].callback, call.writer).result
            /\ writer_after = call_callback(before[i].callback, call.writer).writer

\* C10 witness: the second of two items with different callbacks is
\* dispatched with a writer and its callback reports Failure.
C10_Witness ==
    /\ call.op = "process"
    /\ call.command # "help"
    /\ call.writer # None
    /\ Len(before) = 2
    /\ before[2].command = call.command
    /\ before[1].callback # before[2].callback
    /\ result = Ok("Failure")

\* The names of the items of cmds.
NamesOf(cmds) == {cmds[i].command : i \in DOMAIN cmds}

\* The first item of cmds whose help line does not fit into w any more.
FirstOverflow(cmds, w) ==
    CHOOSE k \in DOMAIN cmds :
        /\ ~HasRoom(w, HelpText(SubSeq(cmds, 1, k)))
        /\ HasRoom(w, HelpText(SubSeq(cmds, 1, k - 1)))

\* C11: process_command("help") never invokes a registered callback, also
\* when an item named "help" is stored; it returns NoWriter exactly when no
\* writer is given and otherwise the listing's Success or WriteError.
C11_HelpNotShadowed ==
    call.op = "process" /\ call.command = "help" =>
        /\ invoked = << >>
        /\ result \in {Err("NoWriter"), Ok("Success"), Err("WriteError")}
        /\ (result = Err("NoWriter") <=> call.writer = None)

\* C11 witness: "help" dispatched with a writer while an item named "help"
\* with a writing callback is stored; only the listing reached the writer.
C11_Witness ==
    /\ call.op = "process"
    /\ call.command = "help"
    /\ call.writer # None
    /\ \E i \in DOMAIN before :
           /\ before[i].command = "help"
           /\ before[i].callback = "writer_demo"
           /\ before[i].help = Some("a")
    /\ result = Ok("Success")
    /\ writer_after[1].buf = "a\n"

\* C12: a successful remove of the item at index i of n leaves n-1 items:
\* index i holds the former last item unless i was the last, every other index
\* below n holds what it held.
C12_SwapWithLast ==
    call.op = "remove" /\ Present(before, call.command) =>
        \E i \in DOMAIN before :
            /\ before[i].command = call.command
            /\ result = Ok("Unit")
            /\ Len(commands) = Len(before) - 1
            /\ \A j \in 1..(Len(before) - 1) :
                   commands[j] = IF j = i THEN before[Len(before)] ELSE before[j]

\* C12 witness: the first of three items was removed and the last took its
\* place, ahead of the second.
C12_Witness ==
    /\ call.op = "remove"
    /\ result.ok
    /\ Len(before) = 3
    /\ before[1].command = call.command
    /\ commands = << before[3], before[2] >>

\* C13: when a write fails during the listing, process_command("help")
\* returns WriteError, the lines of the items before the failing one stay in
\* the writer, followed at most by the failing item's text without its
\* terminator and by nothing of any later item, and the registry is as it was.
C13_WriteErrorStops ==
    (/\ call.op = "process"
     /\ call.command = "help"
     /\ call.writer # None
     /\ ~HasRoom(call.writer[1], HelpText(before)))
    => LET w == call.writer[1]
           k == FirstOverflow(before, w)
           kept == w.buf \o HelpText(SubSeq(before, 1, k - 1))
       IN  /\ result = Err("WriteError")
           /\ commands = before
           /\ writer_after # None
           /\ writer_after[1].buf \in {kept, kept \o before[k].help[1]}
           /\ writer_after[1].buf = kept \o before[k].help[1]
                  <=> Len(kept) + Len(before[k].help[1]) <= w.cap

\* C13 witness: the first item's text did not fit, the second item's line
\* would have, and nothing was written.
C13_Witness ==
    /\ call.op = "process"
    /\ call.command = "help"
    /\ result = Err("WriteError")
    /\ Len(before) >= 2
    /\ before[1].help = Some("bb")
    /\ before[2].help = Some("a")
    /\ call.writer[1].cap = 1
    /\ writer_after[1].buf = ""

\* C14: add on a registry that holds NUM_COMMANDS items fails and changes
\* nothing; it returns CommandAlreadyExists when the name is present and
\* CommandListFull when it is not.
C14_FullAdd ==
    call.op = "add" /\ Len(before) = NUM_COMMANDS =>
        /\ commands = before
        /\ result = IF Present(before, call.command)
                    THEN Err("CommandAlreadyExists")
                    ELSE Err("CommandListFull")

\* C14 witness: a name that is present is added to a full registry of two.
C14_Witness ==
    /\ call.op = "add"
    /\ NUM_COMMANDS = 2
    /\ Len(before) = 2
    /\ Present(before, call.command)
    /\ result = Err("CommandAlreadyExists")

\* C15: a successful add puts the new item last and leaves the others where
\* they were, and every call other than a successful add or a successful
\* remove leaves the sequence as it was; so along any calls without a
\* successful remove the stored sequence grows only at its end, in the order
\* of the successful adds.
C15_AddAppends ==
    /\ call.op = "add" /\ result.ok =>
           /\ Len(commands) = Len(before) + 1
           /\ commands[Len(commands)] =
                  CommandItem(call.command, call.callback, call.help)
           /\ \A i \in DOMAIN before : commands[i] = before[i]
    /\ ~result.ok \/ call.op \notin {"add", "remove"} => commands = before

\* C15 witness: a third item was appended behind two others.
C15_Witness ==
    /\ call.op = "add"
    /\ result.ok
    /\ Len(before) = 2
    /\ Len(commands) = 3
    /\ commands[3].command = call.command

\* C16: process_command leaves the items and their order as they were,
\* whatever the name, the writer and the outcome; only add_command and
\* remove_command change them.
C16_DispatchKeepsRegistry ==
    /\ call.op = "process" => commands = before
    /\ commands # before => call.op \in {"add", "remove"} /\ result.ok

\* C16 witness: a callback ran with a writer and reported Failure on a
\* registry of two items.
C16_Witness ==
    /\ call.op = "process"
    /\ Len(before) = 2
    /\ invoked # << >>
    /\ call.writer # None
    /\ result = Ok("Failure")

\* C17: add of an absent name to a registry with room succeeds, and a remove
\* of that name right after it succeeds and gives back the items in the
\* order they had before the add.
C17_AddRemoveRoundTrip ==
    /\ (/\ call.op = "add"
        /\ Len(before) < NUM_COMMANDS
        /\ ~Present(before, call.command)) => result = Ok("Unit")
    /\ (/\ call.op = "remove"
        /\ previous.op = "add"
        /\ previous.command = call.command)
       => result = Ok("Unit") /\ commands = previous.before

\* C17 witness: an item added to two others was removed again.
C17_Witness ==
    /\ call.op = "remove"
    /\ previous.op = "add"
    /\ previous.command = call.command
    /\ Len(previous.before) = 2
    /\ result.ok

\* C18: a successful remove takes the count down by one and the name out of
\* the set of stored names, and an add of a name not present made right
\* after it succeeds.
C18_RemoveFreesSlot ==
    /\ call.op = "remove" /\ result.ok =>
           /\ Len(commands) = Len(before) - 1
           /\ NamesOf(commands) = NamesOf(before) \ {call.command}
    /\ (/\ call.op = "add"
        /\ previous.op = "remove"
        /\ ~Present(before, call.command)) => result = Ok("Unit")

\* C18 witness: the name removed from a full registry of three was added again.
C18_Witness ==
    /\ call.op = "add"
    /\ previous.op = "remove"
    /\ previous.command = call.command
    /\ NUM_COMMANDS = 3
    /\ Len(commands) = 3
    /\ result.ok

====
